---- MODULE Spec2Model ----
(***************************************************************************)
(* Model of fastrag/agents/create_agent.py:                                *)
(*   EnhancedToolsManager        (execute_tool and its history log)        *)
(*   EnhancedConversationMemory  (add_interaction and its turn log)        *)
(*   get_basic_conversation_pipeline / get_agent_conversation_pipeline     *)
(*   sessions that share one manager and one memory                        *)
(* Python objects that are shared by reference (the system_configs dict,   *)
(* the AGENT_SYSTEM_ROLES template) are modelled as shared state.          *)
(* The base classes ToolsManager and ConversationMemory are not part of    *)
(* this file; BaseExecuteTool and RenderContext follow their contracts.    *)
(***************************************************************************)
EXTENDS Integers, Sequences, FiniteSets, TLC

VARIABLES
    tools,                   \* EnhancedToolsManager: names known to the registry
    debug_mode,              \* EnhancedToolsManager.debug_mode
    tool_execution_history,  \* EnhancedToolsManager.tool_execution_history
    call,                    \* the last execute_tool call: arguments, tool behaviour, history before
    outcome,                 \* what the last execute_tool call gave its caller
    stdout,                  \* lines printed by the last execute_tool call
    twin_history,            \* tool_execution_history of a second manager with the other debug_mode
    twin_outcome,            \* outcome of the same call on the second manager
    tool_history,            \* EnhancedConversationMemory.tool_history
    system_configs,          \* EnhancedConversationMemory.system_configs: the dict object it refers to
    heap,                    \* contents of the dict objects created so far, by object identity
    interactions,            \* the add_interaction calls made so far: their arguments, in call order
    AGENT_SYSTEM_ROLES,      \* content of the module-level system template, AGENT_SYSTEM_ROLES[0]["content"]
    pipeline_call,           \* the last pipeline call: function, configuration, custom_instructions
    tools_objects_map,       \* tools_objects_map built by the last pipeline call, in dict order
    pipeline_outcome,        \* what the last pipeline call gave its caller
    pc,                      \* per session: where it is in execute_tool or add_interaction
    frame,                   \* per session: the arguments and locals of the call it is in
    dispatched,              \* per record: how many execute_tool calls returned after making it
    added                    \* per (query, response, metadata): how many add_interaction calls returned

toolVars == <<tools, debug_mode, tool_execution_history, call, outcome, stdout,
              twin_history, twin_outcome>>

memVars == <<tool_history, system_configs, heap, interactions>>

pipeVars == <<AGENT_SYSTEM_ROLES, pipeline_call, tools_objects_map, pipeline_outcome>>

sessVars == <<pc, frame, dispatched, added>>

vars == <<toolVars, memVars, pipeVars, sessVars>>

----------------------------------------------------------------------------
(* Bounds *)

MaxHistory == 2     \* longest tool_execution_history explored

MaxTurns == 2       \* longest tool_history explored

MaxDicts == 2       \* dict objects system_configs is bound to over a run

MaxTools == 2       \* longest "tools" list of a configuration

----------------------------------------------------------------------------
(* Input domains *)

ToolNames == {"calculator", "search"}

Kwargs == { [input |-> "2+2"], [input |-> "hello"] }

Results == {"4", "doc"}

Errors == {"ValueError", "TimeoutError"}

None == "None"

\* The module-level flag.
DEBUG_MODE == TRUE

NoCall == [tool_name |-> None, kwargs |-> None, invocation |-> None, before |-> <<>>]

NoOutcome == [kind |-> "none", value |-> None]

Returns(r) == [kind |-> "return", value |-> r]

Raises(e) == [kind |-> "raise", value |-> e]

\* What one invocation of a tool capability can do: return a value or raise.
Invocations == {Returns(r) : r \in Results} \cup {Raises(e) : e \in Errors}

----------------------------------------------------------------------------
(* EnhancedToolsManager *)

\* ToolsManager.execute_tool (fastrag.agents.base): look the tool up by name,
\* fail with UnknownToolError if absent, otherwise invoke it with kwargs.
BaseExecuteTool(registry, tool_name, invocation) ==
    IF tool_name \notin registry
    THEN Raises("UnknownToolError")
    ELSE invocation

SuccessRecord(tool_name, kwargs, result) ==
    [tool |-> tool_name, inputs |-> kwargs, result |-> result, status |-> "success"]

\* The record a failed dispatch would leave if the except clause made one.
FailureRecord(tool_name, kwargs, error) ==
    [tool |-> tool_name, inputs |-> kwargs, result |-> error, status |-> "failure"]

DebugLines(dbg, error, kwargs) ==
    IF dbg
    THEN << <<"Tool execution error: ", error>>, <<"Tool inputs: ", kwargs>> >>
    ELSE <<>>

\* Mutant: the except branch returns None instead of re-raising.
ExecuteToolSwallow(dbg, registry, history, tool_name, kwargs, invocation) ==
    LET res == BaseExecuteTool(registry, tool_name, invocation) IN
    IF res.kind = "return"
    THEN [history |-> Append(history, SuccessRecord(tool_name, kwargs, res.value)),
          outcome |-> Returns(res.value),
          stdout  |-> <<>>]
    ELSE [history |-> history,
          outcome |-> Returns(None),
          stdout  |-> DebugLines(dbg, res.value, kwargs)]

\* Mutant: the except branch records a failure for every exception.
ExecuteToolRecordAll(dbg, registry, history, tool_name, kwargs, invocation) ==
    LET res == BaseExecuteTool(registry, tool_name, invocation) IN
    IF res.kind = "return"
    THEN [history |-> Append(history, SuccessRecord(tool_name, kwargs, res.value)),
          outcome |-> Returns(res.value),
          stdout  |-> <<>>]
    ELSE [history |-> Append(history, FailureRecord(tool_name, kwargs, res.value)),
          outcome |-> Raises(res.value),
          stdout  |-> DebugLines(dbg, res.value, kwargs)]

\* Mutant: the success record is inserted at the front of the history.
ExecuteToolPrepend(dbg, registry, history, tool_name, kwargs, invocation) ==
    LET res == BaseExecuteTool(registry, tool_name, invocation) IN
    IF res.kind = "return"
    THEN [history |-> <<SuccessRecord(tool_name, kwargs, res.value)>> \o history,
          outcome |-> Returns(res.value),
          stdout  |-> <<>>]
    ELSE [history |-> history,
          outcome |-> Raises(res.value),
          stdout  |-> DebugLines(dbg, res.value, kwargs)]

\* Mutant: with debug_mode on, the except branch also records the failure.
ExecuteToolDebugRecords(dbg, registry, history, tool_name, kwargs, invocation) ==
    LET res == BaseExecuteTool(registry, tool_name, invocation) IN
    IF res.kind = "return"
    THEN [history |-> Append(history, SuccessRecord(tool_name, kwargs, res.value)),
          outcome |-> Returns(res.value),
          stdout  |-> <<>>]
    ELSE [history |-> IF dbg
                      THEN Append(history, FailureRecord(tool_name, kwargs, res.value))
                      ELSE history,
          outcome |-> Raises(res.value),
          stdout  |-> DebugLines(dbg, res.value, kwargs)]

\* EnhancedToolsManager.execute_tool: try the base dispatch; on a normal
\* return append a success record and return the result; on any exception
\* print the diagnostics when debug_mode is set and re-raise.
ExecuteToolEffect(dbg, registry, history, tool_name, kwargs, invocation) ==
    LET res == BaseExecuteTool(registry, tool_name, invocation) IN
    IF res.kind = "return"
    THEN [history |-> Append(history, SuccessRecord(tool_name, kwargs, res.value)),
          outcome |-> Returns(res.value),
          stdout  |-> <<>>]
    ELSE [history |-> history,
          outcome |-> Raises(res.value),
          stdout  |-> DebugLines(dbg, res.value, kwargs)]

\* EnhancedToolsManager.__init__
InitTools ==
    /\ tools \in SUBSET ToolNames
    /\ debug_mode \in BOOLEAN
    /\ tool_execution_history = <<>>
    /\ call = NoCall
    /\ outcome = NoOutcome
    /\ stdout = <<>>
    /\ twin_history = <<>>
    /\ twin_outcome = NoOutcome

----------------------------------------------------------------------------
(* EnhancedConversationMemory *)

Queries == {"What is 2+2?", "Who wrote it?"}

Responses == {"Final Answer"}

Metadata == {None, "meta"}

ConfigKeys == {"mode"}

ConfigValues == {"fast", "safe"}

Absent == "absent"

\* The empty dict {}.
EmptyDict == [k \in ConfigKeys |-> Absent]

Dicts == [ConfigKeys -> ConfigValues \cup {Absent}]

\* The dict literal built by add_interaction. Its system_config field holds
\* the object self.system_configs refers to, not a copy of its contents.
Turn(query, response, metadata, configs) ==
    [query |-> query, response |-> response, metadata |-> metadata,
     system_config |-> configs]

\* Mutant: the new entry is inserted at the front of the log.
AddInteractionFront(log, query, response, metadata, configs) ==
    <<Turn(query, response, metadata, configs)>> \o log

\* self.tool_history.append({...}) of add_interaction.
AddInteractionEffect(log, query, response, metadata, configs) ==
    Append(log, Turn(query, response, metadata, configs))

\* EnhancedConversationMemory.__init__
InitMemory ==
    /\ tool_history = <<>>
    /\ system_configs = 1
    /\ heap = <<EmptyDict>>
    /\ interactions = <<>>

\* One call memory.add_interaction(query, response, metadata).
AddInteraction(query, response, metadata) ==
    /\ Len(tool_history) < MaxTurns
    /\ tool_history' = AddInteractionEffect(tool_history, query, response,
                                            metadata, system_configs)
    /\ interactions' = Append(interactions,
                              [query |-> query, response |-> response,
                               metadata |-> metadata])
    /\ UNCHANGED <<system_configs, heap>>
    /\ UNCHANGED <<toolVars, pipeVars, sessVars>>

\* memory.system_configs[key] = value: an update of the dict in place.
SetSystemConfig(key, value) ==
    /\ heap[system_configs][key] # value
    /\ heap' = [heap EXCEPT ![system_configs][key] = value]
    /\ UNCHANGED <<tool_history, system_configs, interactions>>
    /\ UNCHANGED <<toolVars, pipeVars, sessVars>>

\* memory.system_configs = configs: the attribute is bound to a new dict.
ReplaceSystemConfigs(configs) ==
    /\ Len(heap) < MaxDicts
    /\ system_configs' = Len(heap) + 1
    /\ heap' = Append(heap, configs)
    /\ UNCHANGED <<tool_history, interactions>>
    /\ UNCHANGED <<toolVars, pipeVars, sessVars>>

\* What entry i of the log reads as: its fields, the system_config field
\* read through the reference it holds.
EntryValue(i) ==
    [query |-> tool_history[i].query,
     response |-> tool_history[i].response,
     metadata |-> tool_history[i].metadata,
     system_config |-> heap[tool_history[i].system_config]]

RenderTurn(query, response) == <<"User: ", query, "Assistant: ", response>>

RECURSIVE RenderTurns(_)
RenderTurns(log) ==
    IF log = <<>>
    THEN <<>>
    ELSE <<RenderTurn(Head(log).query, Head(log).response)>> \o RenderTurns(Tail(log))

\* render_context(max_turns): the most recent max_turns turns, oldest to
\* newest, as text; the whole log when max_turns is None.
RenderContext(log, max_turns) ==
    IF max_turns = None \/ max_turns >= Len(log)
    THEN RenderTurns(log)
    ELSE RenderTurns(SubSeq(log, Len(log) - max_turns + 1, Len(log)))

NextMemory ==
    \/ \E query \in Queries, response \in Responses, metadata \in Metadata :
          AddInteraction(query, response, metadata)
    \/ \E key \in ConfigKeys, value \in ConfigValues : SetSystemConfig(key, value)
    \/ \E configs \in Dicts : ReplaceSystemConfigs(configs)

----------------------------------------------------------------------------
(* Claims about EnhancedConversationMemory *)

\* C5: after K add_interaction calls on a fresh memory the log holds K turns,
\* in call order, each with its own call's query, response and metadata, and
\* the rendered context lists them oldest to newest.
C5_TurnsInCallOrder ==
    /\ Len(tool_history) = Len(interactions)
    /\ \A i \in 1..Len(interactions) :
          /\ tool_history[i].query = interactions[i].query
          /\ tool_history[i].response = interactions[i].response
          /\ tool_history[i].metadata = interactions[i].metadata
    /\ RenderContext(tool_history, None) =
          [i \in 1..Len(interactions) |->
              RenderTurn(interactions[i].query, interactions[i].response)]

C5_Witness ==
    /\ Len(interactions) = 2
    /\ interactions[1].query # interactions[2].query
    /\ interactions[1].metadata # interactions[2].metadata

\* C10: an appended entry is never changed by a later add_interaction or a
\* later update of system_configs: every field keeps its value.
C10_EntryNeverChanges ==
    [][\A i \in 1..Len(tool_history) : EntryValue(i)' = EntryValue(i)]_vars

----------------------------------------------------------------------------
(* Prompt template and str.format *)

LB == "{"

RB == "}"

\* AGENT_SYSTEM_ROLES[0]["content"] as written in the module: text between
\* braces is kept whole, every brace is a token of its own.
Template ==
    << "You are designed to help with a variety of tasks.",
       LB, "custom_system_instructions", RB,
       "## Tools ... Previous conversation context:",
       LB, "conversation_history", RB,
       "You have access to the following tools:",
       LB, "tool_names_with_descriptions", RB,
       "## Output Format ... Tool Input: [... (e.g. ",
       LB, LB, "\"input\": \"hello world\"", RB, RB,
       ")]. ... Final Answer: [your answer here]" >>

\* The name str.format looks up for a replacement field: the field's text
\* up to the first ':' or '!'.
FieldName(field) ==
    IF field = "\"input\": \"hello world\"" THEN "\"input\"" ELSE field

Formatted(text) == [ok |-> TRUE, out |-> text, error |-> None]

FormatError(e) == [ok |-> FALSE, out |-> <<>>, error |-> e]

FormatCons(prefix, rest) ==
    IF rest.ok THEN Formatted(prefix \o rest.out) ELSE rest

\* str.format(**kwargs): "{{" and "}}" give one literal brace, "{name}" is
\* replaced by kwargs[name] (KeyError when absent), the replacement text is
\* not scanned again, a brace on its own is a ValueError.
RECURSIVE StrFormat(_, _)
StrFormat(text, kwargs) ==
    IF text = <<>> THEN Formatted(<<>>)
    ELSE IF text[1] = LB THEN
        IF Len(text) >= 2 /\ text[2] = LB
        THEN FormatCons(<<LB>>, StrFormat(SubSeq(text, 3, Len(text)), kwargs))
        ELSE IF Len(text) >= 2 /\ text[2] = RB
        THEN FormatError("IndexError")
        ELSE IF Len(text) >= 3 /\ text[3] = RB
        THEN IF FieldName(text[2]) \in DOMAIN kwargs
             THEN FormatCons(kwargs[FieldName(text[2])],
                             StrFormat(SubSeq(text, 4, Len(text)), kwargs))
             ELSE FormatError("KeyError")
        ELSE FormatError("ValueError")
    ELSE IF text[1] = RB THEN
        IF Len(text) >= 2 /\ text[2] = RB
        THEN FormatCons(<<RB>>, StrFormat(SubSeq(text, 3, Len(text)), kwargs))
        ELSE FormatError("ValueError")
    ELSE FormatCons(<<text[1]>>, StrFormat(Tail(text), kwargs))

\* The keyword arguments get_agent_conversation_pipeline passes to format.
FormatKwargs(custom_instructions) ==
    [custom_system_instructions |-> custom_instructions,
     conversation_history |-> <<LB, "conversation_history", RB>>,
     tool_names_with_descriptions |-> <<LB, "tool_names_with_descriptions", RB>>]

----------------------------------------------------------------------------
(* get_basic_conversation_pipeline, get_agent_conversation_pipeline *)

ToolTypes == {"doc", "image"}

\* One entry of conversation_config["tools"]: its type and params["name"].
ToolConfigs == [type : ToolTypes, name : ToolNames]

Configs == UNION { [1..n -> ToolConfigs] : n \in 0..MaxTools }

CustomInstructions == {None, <<"Answer briefly.">>, <<"Cite your sources.">>}

NoPipelineCall == [function |-> None, config |-> <<>>, custom_instructions |-> None]

\* tool_type_class(**tool_config["params"]): a new object per entry.
ToolObject(config, i) == [type |-> config[i].type, name |-> config[i].name, entry |-> i]

\* d[key] = value on a dict kept in insertion order: a present key keeps its
\* place and gets the new value, an absent key is added at the end.
DictSet(d, key, value) ==
    IF \E j \in 1..Len(d) : d[j].key = key
    THEN [j \in 1..Len(d) |-> IF d[j].key = key THEN [key |-> key, value |-> value] ELSE d[j]]
    ELSE Append(d, [key |-> key, value |-> value])

\* The loop over conversation_config["tools"], entries 1..n done.
RECURSIVE BuildToolsMap(_, _)
BuildToolsMap(config, n) ==
    IF n = 0
    THEN <<>>
    ELSE DictSet(BuildToolsMap(config, n - 1), config[n].name, ToolObject(config, n))

GetBasicConversationPipeline(config) == BuildToolsMap(config, Len(config))

HasDuplicateNames(config) ==
    \E i, j \in 1..Len(config) : i < j /\ config[i].name = config[j].name

InitPipeline ==
    /\ AGENT_SYSTEM_ROLES = Template
    /\ pipeline_call = NoPipelineCall
    /\ tools_objects_map = <<>>
    /\ pipeline_outcome = NoOutcome

\* One call get_basic_conversation_pipeline(args), args.config holding config.
BasicConversationPipeline(config) ==
    /\ pipeline_call' = [function |-> "get_basic_conversation_pipeline",
                         config |-> config, custom_instructions |-> None]
    /\ tools_objects_map' = GetBasicConversationPipeline(config)
    /\ pipeline_outcome' = Returns("pipeline")
    /\ UNCHANGED AGENT_SYSTEM_ROLES
    /\ UNCHANGED <<toolVars, memVars, sessVars>>

\* One call get_agent_conversation_pipeline(args, custom_instructions).
AgentConversationPipeline(config, custom_instructions) ==
    /\ pipeline_call' = [function |-> "get_agent_conversation_pipeline",
                         config |-> config,
                         custom_instructions |-> custom_instructions]
    /\ tools_objects_map' = GetBasicConversationPipeline(config)
    /\ IF custom_instructions # None
       THEN LET content == StrFormat(AGENT_SYSTEM_ROLES,
                                     FormatKwargs(custom_instructions)) IN
            IF content.ok
            THEN /\ AGENT_SYSTEM_ROLES' = content.out
                 /\ pipeline_outcome' = Returns("agent")
            ELSE /\ AGENT_SYSTEM_ROLES' = AGENT_SYSTEM_ROLES
                 /\ pipeline_outcome' = Raises(content.error)
       ELSE /\ AGENT_SYSTEM_ROLES' = AGENT_SYSTEM_ROLES
            /\ pipeline_outcome' = Returns("agent")
    /\ UNCHANGED <<toolVars, memVars, sessVars>>

\* The system prompt of an agent built by the pipeline: the agent is given
\* AGENT_ROLES, whose "system" entry is the module-level list itself.
AgentSystemPrompt == AGENT_SYSTEM_ROLES

NextPipeline ==
    \/ \E config \in Configs : BasicConversationPipeline(config)
    \/ \E config \in Configs, custom_instructions \in CustomInstructions :
          AgentConversationPipeline(config, custom_instructions)

----------------------------------------------------------------------------
(* Claims about the pipeline functions *)

PipelineCalled == pipeline_call # NoPipelineCall

Contains(text, part) ==
    \E i \in 1..Len(text) :
        /\ i + Len(part) - 1 <= Len(text)
        /\ SubSeq(text, i, i + Len(part) - 1) = part

\* C4: registering two entries with the same name fails with
\* DuplicateNameError; the second never replaces the first.
C4_DuplicateNameRejected ==
    (PipelineCalled /\ HasDuplicateNames(pipeline_call.config)) =>
        /\ pipeline_outcome = Raises("DuplicateNameError")
        /\ \A j \in 1..Len(tools_objects_map) :
              \A i \in 1..Len(pipeline_call.config) :
                  pipeline_call.config[i].name = tools_objects_map[j].key
                      => tools_objects_map[j].value.entry <= i

\* C6: every get_agent_conversation_pipeline call succeeds, the agent's
\* system prompt carries the call's instructions, and the shared template
\* is the same after the call as before it.
C6_TemplateSubstitutionPure ==
    (PipelineCalled /\ pipeline_call.function = "get_agent_conversation_pipeline") =>
        /\ pipeline_outcome.kind = "return"
        /\ AGENT_SYSTEM_ROLES = Template
        /\ pipeline_call.custom_instructions # None =>
              Contains(AgentSystemPrompt, pipeline_call.custom_instructions)

----------------------------------------------------------------------------
(* Calls to the manager *)

\* One call manager.execute_tool(tool_name, **kwargs).
ExecuteTool(tool_name, kwargs, invocation) ==
    /\ Len(tool_execution_history) < MaxHistory
    /\ LET eff == ExecuteToolEffect(debug_mode, tools, tool_execution_history,
                                    tool_name, kwargs, invocation) IN
          /\ tool_execution_history' = eff.history
          /\ outcome' = eff.outcome
          /\ stdout' = eff.stdout
    /\ call' = [tool_name |-> tool_name, kwargs |-> kwargs,
                invocation |-> invocation, before |-> tool_execution_history]
    /\ UNCHANGED <<tools, debug_mode, twin_history, twin_outcome>>
    /\ UNCHANGED <<memVars, pipeVars, sessVars>>

NextTools ==
    \E tool_name \in ToolNames, kwargs \in Kwargs, invocation \in Invocations :
        ExecuteTool(tool_name, kwargs, invocation)

----------------------------------------------------------------------------
(* The same call on two managers that differ only in debug_mode *)

\* manager.execute_tool(tool_name, **kwargs) on a manager built with
\* debug_mode and on one built with the opposite flag, from the same history.
ExecuteToolBothModes(tool_name, kwargs, invocation) ==
    /\ Len(tool_execution_history) < MaxHistory
    /\ LET eff == ExecuteToolEffect(debug_mode, tools, tool_execution_history,
                                    tool_name, kwargs, invocation)
           twin == ExecuteToolEffect(~debug_mode, tools, twin_history,
                                     tool_name, kwargs, invocation) IN
          /\ tool_execution_history' = eff.history
          /\ outcome' = eff.outcome
          /\ stdout' = eff.stdout
          /\ twin_history' = twin.history
          /\ twin_outcome' = twin.outcome
    /\ call' = [tool_name |-> tool_name, kwargs |-> kwargs,
                invocation |-> invocation, before |-> tool_execution_history]
    /\ UNCHANGED <<tools, debug_mode>>
    /\ UNCHANGED <<memVars, pipeVars, sessVars>>

NextDebug ==
    \E tool_name \in ToolNames, kwargs \in Kwargs, invocation \in Invocations :
        ExecuteToolBothModes(tool_name, kwargs, invocation)

----------------------------------------------------------------------------
(* Claims about EnhancedToolsManager.execute_tool *)

Called == call # NoCall

ToolRaised == Called /\ call.tool_name \in tools /\ call.invocation.kind = "raise"

ToolReturned == Called /\ call.tool_name \in tools /\ call.invocation.kind = "return"

\* C1: a call whose registered tool raises appends exactly one record, with
\* status failure and the call's kwargs as inputs.
C1_FailureRecorded ==
    ToolRaised =>
        /\ Len(tool_execution_history) = Len(call.before) + 1
        /\ SubSeq(tool_execution_history, 1, Len(call.before)) = call.before
        /\ tool_execution_history[Len(tool_execution_history)].status = "failure"
        /\ tool_execution_history[Len(tool_execution_history)].inputs = call.kwargs

\* C2: a call whose registered tool returns r returns r and appends exactly
\* one success record (tool, kwargs, r) after the unchanged earlier records.
C2_SuccessRecorded ==
    ToolReturned =>
        /\ outcome = Returns(call.invocation.value)
        /\ tool_execution_history =
              call.before \o << [tool |-> call.tool_name, inputs |-> call.kwargs,
                                 result |-> call.invocation.value,
                                 status |-> "success"] >>

C2_Witness ==
    /\ ToolReturned
    /\ Len(call.before) >= 1
    /\ call.before[1] # tool_execution_history[Len(tool_execution_history)]

\* C3: no record names an unregistered tool, and a call with an unregistered
\* name leaves the history as it was before the call.
C3_UnknownToolNotRecorded ==
    /\ \A i \in 1..Len(tool_execution_history) :
          tool_execution_history[i].tool \in tools
    /\ (Called /\ call.tool_name \notin tools) =>
          tool_execution_history = call.before

C3_Witness ==
    /\ Called
    /\ call.tool_name \notin tools
    /\ outcome = Raises("UnknownToolError")
    /\ Len(call.before) >= 1

\* C9: when the tool invocation raises, execute_tool raises that same
\* exception to its caller and returns no value.
C9_FailureReraised ==
    ToolRaised => outcome = Raises(call.invocation.value)

C9_Witness ==
    /\ ToolRaised
    /\ outcome.kind = "raise"
    /\ stdout # <<>>

\* C8: the manager with debug_mode on and the manager with it off give the
\* same outcome and hold the same history after the same call.
C8_DebugTransparent ==
    /\ twin_outcome = outcome
    /\ twin_history = tool_execution_history

C8_Witness ==
    /\ Called
    /\ outcome.kind = "raise"
    /\ stdout # <<>>
    /\ Len(tool_execution_history) >= 1

----------------------------------------------------------------------------
(* Sessions sharing one EnhancedToolsManager and one EnhancedConversationMemory *)

Sessions == {"s1", "s2"}

\* What the sessions call the shared objects with.
SessionKwargs == { [input |-> "2+2"] }

SessionInvocations == {Returns("4"), Returns("doc"), Raises("ValueError")}

SessionMetadata == {None}

SessionRecords ==
    {SuccessRecord(t, k, r) : t \in ToolNames, k \in SessionKwargs, r \in Results}

SessionTurns == [query : Queries, response : Responses, metadata : SessionMetadata]

NoFrame == [op |-> None]

InitSessions ==
    /\ pc = [s \in Sessions |-> "idle"]
    /\ frame = [s \in Sessions |-> NoFrame]
    /\ dispatched = [record \in SessionRecords |-> 0]
    /\ added = [turn \in SessionTurns |-> 0]

InAddInteraction(s) == pc[s] \in {"print", "build", "append"}

\* Session s calls manager.execute_tool(tool_name, **kwargs).
BeginExecuteTool(s, tool_name, kwargs) ==
    /\ pc[s] = "idle"
    /\ Len(tool_execution_history)
         + Cardinality({t \in Sessions : pc[t] \in {"dispatch", "record"}}) < MaxHistory
    /\ pc' = [pc EXCEPT ![s] = "dispatch"]
    /\ frame' = [frame EXCEPT ![s] = [op |-> "execute_tool", tool_name |-> tool_name,
                                      kwargs |-> kwargs, result |-> None]]
    /\ UNCHANGED <<dispatched, added>>
    /\ UNCHANGED <<toolVars, memVars, pipeVars>>

\* super().execute_tool(tool_name, **kwargs) comes back in session s: the
\* result is bound, or control passes to the except clause.
Dispatch(s, invocation) ==
    /\ pc[s] = "dispatch"
    /\ LET res == BaseExecuteTool(tools, frame[s].tool_name, invocation) IN
          /\ pc' = [pc EXCEPT ![s] = IF res.kind = "return" THEN "record" ELSE "except"]
          /\ frame' = [frame EXCEPT ![s].result = res.value]
    /\ UNCHANGED <<dispatched, added>>
    /\ UNCHANGED <<toolVars, memVars, pipeVars>>

\* Mutant: the append is skipped when another session is about to append.
RecordUnlessBusy(s) ==
    /\ pc[s] = "record"
    /\ tool_execution_history' =
          IF \E t \in Sessions \ {s} : pc[t] = "record"
          THEN tool_execution_history
          ELSE Append(tool_execution_history,
                      SuccessRecord(frame[s].tool_name, frame[s].kwargs, frame[s].result))
    /\ pc' = [pc EXCEPT ![s] = "return"]
    /\ UNCHANGED <<tools, debug_mode, call, outcome, stdout, twin_history, twin_outcome>>
    /\ UNCHANGED <<frame, dispatched, added>>
    /\ UNCHANGED <<memVars, pipeVars>>

\* self.tool_execution_history.append({...}) in session s: list.append is
\* one indivisible step of the interpreter.
Record(s) ==
    /\ pc[s] = "record"
    /\ tool_execution_history' =
          Append(tool_execution_history,
                 SuccessRecord(frame[s].tool_name, frame[s].kwargs, frame[s].result))
    /\ pc' = [pc EXCEPT ![s] = "return"]
    /\ UNCHANGED <<tools, debug_mode, call, outcome, stdout, twin_history, twin_outcome>>
    /\ UNCHANGED <<frame, dispatched, added>>
    /\ UNCHANGED <<memVars, pipeVars>>

\* return result in session s.
Return(s) ==
    /\ pc[s] = "return"
    /\ LET record == SuccessRecord(frame[s].tool_name, frame[s].kwargs, frame[s].result) IN
          dispatched' = [dispatched EXCEPT ![record] = @ + 1]
    /\ pc' = [pc EXCEPT ![s] = "idle"]
    /\ frame' = [frame EXCEPT ![s] = NoFrame]
    /\ UNCHANGED added
    /\ UNCHANGED <<toolVars, memVars, pipeVars>>

\* The except clause in session s: the diagnostics, then raise.
Except(s) ==
    /\ pc[s] = "except"
    /\ pc' = [pc EXCEPT ![s] = "idle"]
    /\ frame' = [frame EXCEPT ![s] = NoFrame]
    /\ UNCHANGED <<dispatched, added>>
    /\ UNCHANGED <<toolVars, memVars, pipeVars>>

\* Session s calls memory.add_interaction(query, response, metadata).
BeginAddInteraction(s, query, response, metadata) ==
    /\ pc[s] = "idle"
    /\ Len(tool_history)
         + Cardinality({t \in Sessions : InAddInteraction(t)}) < MaxTurns
    /\ pc' = [pc EXCEPT ![s] = "print"]
    /\ frame' = [frame EXCEPT ![s] = [op |-> "add_interaction", query |-> query,
                                      response |-> response, metadata |-> metadata,
                                      system_config |-> None]]
    /\ UNCHANGED <<dispatched, added>>
    /\ UNCHANGED <<toolVars, memVars, pipeVars>>

\* if DEBUG_MODE: print(...) in session s.
PrintInteraction(s) ==
    /\ pc[s] = "print"
    /\ DEBUG_MODE
    /\ pc' = [pc EXCEPT ![s] = "build"]
    /\ UNCHANGED <<frame, dispatched, added>>
    /\ UNCHANGED <<toolVars, memVars, pipeVars>>

\* The dict literal is evaluated in session s: self.system_configs is read.
BuildTurn(s) ==
    /\ pc[s] = "build"
    /\ pc' = [pc EXCEPT ![s] = "append"]
    /\ frame' = [frame EXCEPT ![s].system_config = system_configs]
    /\ UNCHANGED <<dispatched, added>>
    /\ UNCHANGED <<toolVars, memVars, pipeVars>>

\* self.tool_history.append(...) in session s, after which the call returns.
AppendTurn(s) ==
    /\ pc[s] = "append"
    /\ tool_history' = AddInteractionEffect(tool_history, frame[s].query, frame[s].response,
                                            frame[s].metadata, frame[s].system_config)
    /\ LET turn == [query |-> frame[s].query, response |-> frame[s].response,
                    metadata |-> frame[s].metadata] IN
          added' = [added EXCEPT ![turn] = @ + 1]
    /\ pc' = [pc EXCEPT ![s] = "idle"]
    /\ frame' = [frame EXCEPT ![s] = NoFrame]
    /\ UNCHANGED <<system_configs, heap, interactions, dispatched>>
    /\ UNCHANGED <<toolVars, pipeVars>>

NextSessions ==
    \E s \in Sessions :
        \/ \E tool_name \in ToolNames, kwargs \in SessionKwargs :
              BeginExecuteTool(s, tool_name, kwargs)
        \/ \E invocation \in SessionInvocations : Dispatch(s, invocation)
        \/ Record(s)
        \/ Return(s)
        \/ Except(s)
        \/ \E query \in Queries, response \in Responses, metadata \in SessionMetadata :
              BeginAddInteraction(s, query, response, metadata)
        \/ PrintInteraction(s)
        \/ BuildTurn(s)
        \/ AppendTurn(s)

----------------------------------------------------------------------------
(* Claims about sessions sharing the manager and the memory *)

RECURSIVE Count(_, _)
Count(seq, x) ==
    IF seq = <<>> THEN 0
    ELSE (IF Head(seq) = x THEN 1 ELSE 0) + Count(Tail(seq), x)

TurnArguments(turn) ==
    [query |-> turn.query, response |-> turn.response, metadata |-> turn.metadata]

TurnsArguments(log) == [i \in 1..Len(log) |-> TurnArguments(log[i])]

Returning(record) ==
    Cardinality({s \in Sessions :
        /\ pc[s] = "return"
        /\ SuccessRecord(frame[s].tool_name, frame[s].kwargs, frame[s].result) = record})

Quiescent == \A s \in Sessions : pc[s] = "idle"

\* C7: under every interleaving no record is lost, duplicated or partially
\* written: the history holds exactly one record per successful dispatch
\* (those returned, and those appended and about to return) and the turn log
\* one entry per add_interaction call that returned.
C7_NoLostOrDuplicatedRecord ==
    /\ \A i \in 1..Len(tool_execution_history) :
          tool_execution_history[i] \in SessionRecords
    /\ \A record \in SessionRecords :
          Count(tool_execution_history, record) = dispatched[record] + Returning(record)
    /\ \A i \in 1..Len(tool_history) :
          /\ TurnArguments(tool_history[i]) \in SessionTurns
          /\ tool_history[i].system_config = system_configs
    /\ \A turn \in SessionTurns :
          Count(TurnsArguments(tool_history), turn) = added[turn]

C7_Witness ==
    /\ Quiescent
    /\ Len(tool_execution_history) = 2
    /\ tool_execution_history[1] # tool_execution_history[2]
    /\ Len(tool_history) = 2
    /\ tool_history[1].query # tool_history[2].query

----------------------------------------------------------------------------
(* Specifications *)

Init == InitTools /\ InitMemory /\ InitPipeline /\ InitSessions

SpecTools == Init /\ [][NextTools]_vars

SpecDebug == Init /\ [][NextDebug]_vars

SpecMemory == Init /\ [][NextMemory]_vars

SpecPipeline == Init /\ [][NextPipeline]_vars

\* The manager get_agent_conversation_pipeline builds for the sessions:
\* debug_mode is DEBUG_MODE, one tool of the two is registered.
InitShared == Init /\ debug_mode = DEBUG_MODE /\ tools = {"calculator"}

SpecSessions == InitShared /\ [][NextSessions]_vars

====
